---- MODULE Spec2Model ----
(***************************************************************************)
(* A model of the codec combinator library (src/src/index.ts).            *)
(*                                                                         *)
(* JavaScript values and tree nodes are tagged records.  A codec is the   *)
(* term that built it (string, array(c), record(fields), c.map(f), ...);  *)
(* Encode and Decode interpret such a term the way the closures stored in *)
(* the Codec object run.  Objects carry their properties as a function    *)
(* from key to value: two objects are equal when they have the same keys  *)
(* and values, which is the observational equality the tests use          *)
(* (toEqual); the order of an object's keys is not modelled.              *)
(***************************************************************************)
EXTENDS Integers, Sequences, FiniteSets, TLC

VARIABLES
  op,       \* the last operation: "init", "toObject", "fromObject", "roundTrip", "fromJSON"
  codec,    \* the codec it was called on
  entity,   \* toObject's argument
  encoded,  \* toObject's return value
  text,     \* fromJSON's argument
  data,     \* the node handed to the codec's decode
  result,   \* the outcome of the decode: a Result, or a fault
  calls     \* the calls the codec's decode made, in order

vars == <<op, codec, entity, encoded, text, data, result, calls>>

(***************************************************************************)
(* Bounds of the model.                                                    *)
(***************************************************************************)
MaxNum == 1
MaxLen == 3

(***************************************************************************)
(* Values.                                                                 *)
(***************************************************************************)
Undef == [t |-> "undefined"]
Null == [t |-> "null"]
Num(n) == [t |-> "number", n |-> n]
Str(s) == [t |-> "string", s |-> s]
Bool(b) == [t |-> "boolean", b |-> b]
Arr(items) == [t |-> "array", items |-> items]
Obj(props) == [t |-> "object", props |-> props]

\* Placeholder for a variable the last operation did not set.
None == [t |-> "none"]

\* JavaScript's typeof: null, arrays and objects are all 'object'.
TypeOf(v) ==
  CASE v.t = "string" -> "string"
    [] v.t = "number" -> "number"
    [] v.t = "boolean" -> "boolean"
    [] v.t = "undefined" -> "undefined"
    [] OTHER -> "object"

\* Array.isArray
IsArray(v) == v.t = "array"

\* A presence test that takes only undefined for missing.
FalsyAbsentOnly(v) == v.t = "undefined"

\* JavaScript's !v: undefined, null, 0, '' and false are falsy.
Falsy(v) ==
  \/ v.t \in {"undefined", "null"}
  \/ v.t = "number" /\ v.n = 0
  \/ v.t = "string" /\ v.s = ""
  \/ v.t = "boolean" /\ v.b = FALSE

(***************************************************************************)
(* Results.  A decode returns a Result; a fault (an exception that leaves  *)
(* the call) is the third outcome.                                         *)
(***************************************************************************)
Ok(v) == [ok |-> TRUE, value |-> v]
Err(m) == [ok |-> FALSE, error |-> m]
Threw(e) == [threw |-> e]

IsThrow(r) == "threw" \in DOMAIN r
IsOk(r) == "ok" \in DOMAIN r /\ r.ok
IsErr(r) == "ok" \in DOMAIN r /\ ~r.ok

\* data[key].  Reading a property of null or undefined is a TypeError; the
\* keys of the model are never array indices, 'length' or prototype members.
HasKey(v, key) == v.t = "object" /\ key \in DOMAIN v.props
Get(v, key) ==
  IF v.t \in {"null", "undefined"} THEN Threw("TypeError")
  ELSE IF HasKey(v, key) THEN v.props[key]
  ELSE Undef

(***************************************************************************)
(* User functions handed to sel, map, mapRecord, filter and oneOf.  They   *)
(* are named; Extract, Apply and Test run them.                            *)
(***************************************************************************)
\* sel's projections are property reads: x => x.num, u => u.name, r => r[key].
Extract(e, y) == Get(y, e)

\* newInt: n => new Int(n); newUser: ({name, age}) => new User(name, age);
\* wrap: a => [a].
Apply(f, a) ==
  CASE f = "newInt" -> Obj("num" :> a)
    [] f = "newUser" -> Obj(("name" :> Get(a, "name")) @@ ("age" :> Get(a, "age")))
    [] f = "wrap" -> Arr(<<a>>)

\* truthy: a => !!a; tagNumber: x => x.type === 'number'; tagString likewise.
Test(p, a) ==
  CASE p = "truthy" -> ~Falsy(a)
    [] p = "always" -> TRUE
    [] p = "never" -> FALSE
    [] p = "tagNumber" -> Get(a, "type") = Str("number")
    [] p = "tagString" -> Get(a, "type") = Str("string")

(***************************************************************************)
(* Codecs, as the terms that build them.                                   *)
(***************************************************************************)
string == [kind |-> "string"]
number == [kind |-> "number"]
boolean == [kind |-> "boolean"]

sel(c, extract) == [kind |-> "sel", of |-> c, extract |-> extract]
map(c, f) == [kind |-> "map", of |-> c, f |-> f]
filter(c, error, cond) == [kind |-> "filter", of |-> c, error |-> error, cond |-> cond]
array(c) == [kind |-> "array", of |-> c]

\* One entry of the object of codecs given to record and mapRecord; the
\* sequence is the order in which `for (const key in codecs)` visits the keys.
Field(key, c) == [key |-> key, codec |-> c]

sameRecord(codecs) == [kind |-> "record", fields |-> codecs]

record(codecs) ==
  sameRecord([i \in DOMAIN codecs |->
                Field(codecs[i].key, sel(codecs[i].codec, codecs[i].key))])

mapRecord(codecs, f) == map(sameRecord(codecs), f)

\* Combinators the tests and the README use and the source does not hold.
optional(c) == [kind |-> "optional", of |-> c]
constant(v) == [kind |-> "constant", lit |-> v]
Variant(c, p) == [codec |-> c, pred |-> p]
oneOf(variants) == [kind |-> "oneOf", variants |-> variants]

(***************************************************************************)
(* Decoding.  A decode yields its outcome and the calls its body made, in  *)
(* order: each call of a child codec's decode and each call of a user      *)
(* function.                                                               *)
(***************************************************************************)
Out(res, log) == [res |-> res, log |-> log]

DecodeCall(c, arg) == [call |-> "decode", codec |-> c, arg |-> arg]
FieldCall(key, c, arg) == [call |-> "decode", key |-> key, codec |-> c, arg |-> arg]
FnCall(f, arg) == [call |-> "fn", f |-> f, arg |-> arg]

decodeString(d) ==
  IF TypeOf(d) = "string" THEN Ok(d) ELSE Err("expected string")

\* A number codec that lets booleans through.
decodeNumberLoose(d) ==
  IF TypeOf(d) \in {"number", "boolean"} THEN Ok(d) ELSE Err("expected number ")

decodeNumber(d) ==
  IF TypeOf(d) = "number" THEN Ok(d) ELSE Err("expected number ")

decodeBoolean(d) ==
  IF TypeOf(d) = "boolean" THEN Ok(d) ELSE Err("expected boolean")

\* A mapResult that does not look at res.ok before it calls f.
mapResultUnchecked(res, f) ==
  IF res.ok THEN [res EXCEPT !.value = Apply(f, res.value)]
  ELSE [ok |-> FALSE, error |-> res.error, value |-> Apply(f, Undef)]

\* { ...result, value: f(result.value) }
mapResult(res, f) ==
  IF res.ok THEN [res EXCEPT !.value = Apply(f, res.value)] ELSE res

\* res[key] = value
SetProp(props, key, v) ==
  [k \in DOMAIN props \cup {key} |-> IF k = key THEN v ELSE props[k]]

RECURSIVE Decode(_, _)
RECURSIVE decodeItems(_, _, _, _, _)
RECURSIVE decodeFields(_, _, _, _, _)
RECURSIVE decodeVariants(_, _, _, _)

\* A loop that decodes every item and only then returns the first failure.
decodeItemsAll(c, items, i, value, log) ==
  LET rest == i..Len(items)
      outs == [j \in rest |-> Decode(c, items[j]).res]
      failing == {j \in rest : ~IsOk(outs[j])}
      log2 == log \o [k \in 1..(Len(items) - i + 1) |-> DecodeCall(c, items[i + k - 1])]
  IN  IF failing = {}
      THEN Out(Ok(Arr(value \o [k \in 1..(Len(items) - i + 1) |-> outs[i + k - 1].value])), log2)
      ELSE Out(outs[CHOOSE j \in failing : \A k \in failing : j <= k], log2)

\* The loop of decodeArray from item i on; value and log are what the
\* earlier items left.
decodeItems(c, items, i, value, log) ==
  IF i > Len(items) THEN Out(Ok(Arr(value)), log)
  ELSE LET decoded == Decode(c, items[i]).res
           log2 == Append(log, DecodeCall(c, items[i]))
       IN  IF ~IsOk(decoded) THEN Out(decoded, log2)
           ELSE decodeItems(c, items, i + 1, Append(value, decoded.value), log2)

decodeArray(d, c) ==
  IF ~IsArray(d) THEN Out(Err("expected array"), <<>>)
  ELSE decodeItems(c, d.items, 1, <<>>, <<>>)

\* The loop of decodeRecord from field i on.
decodeFields(d, codecs, i, res, log) ==
  IF i > Len(codecs) THEN Out(Ok(Obj(res)), log)
  ELSE LET key == codecs[i].key
           val == Get(d, key)
       IN  IF IsThrow(val) THEN Out(val, log)
           ELSE IF Falsy(val) THEN Out(Err("missing field " \o key), log)
           ELSE LET decode == Decode(codecs[i].codec, val).res
                    log2 == Append(log, FieldCall(key, codecs[i].codec, val))
                IN  IF ~IsOk(decode) THEN Out(decode, log2)
                    ELSE decodeFields(d, codecs, i + 1,
                                      SetProp(res, key, decode.value), log2)

decodeRecord(d, codecs) ==
  IF TypeOf(d) # "object" THEN Out(Err("expected object"), <<>>)
  ELSE decodeFields(d, codecs, 1, <<>>, <<>>)

\* The decode of c.map(f).
decodeMap(c, f, d) ==
  LET inner == Decode(c, d).res
      log == <<DecodeCall(c, d)>>
  IN  IF IsThrow(inner) THEN Out(inner, log)
      ELSE Out(mapResult(inner, f),
               IF inner.ok THEN Append(log, FnCall(f, inner.value)) ELSE log)

\* A filter that rejects what cond accepts.
decodeFilterInverted(c, error, cond, d) ==
  LET decoded == Decode(c, d).res
      log == <<DecodeCall(c, d)>>
  IN  IF ~IsOk(decoded) THEN Out(decoded, log)
      ELSE IF Test(cond, decoded.value)
           THEN Out(Err(error), Append(log, FnCall(cond, decoded.value)))
      ELSE Out(decoded, Append(log, FnCall(cond, decoded.value)))

\* The decode of c.filter(error, cond).
decodeFilter(c, error, cond, d) ==
  LET decoded == Decode(c, d).res
      log == <<DecodeCall(c, d)>>
  IN  IF ~IsOk(decoded) THEN Out(decoded, log)
      ELSE IF ~Test(cond, decoded.value)
           THEN Out(Err(error), Append(log, FnCall(cond, decoded.value)))
      ELSE Out(decoded, Append(log, FnCall(cond, decoded.value)))

\* optional: an absent entry decodes to the absent marker.
decodeOptional(c, d) ==
  IF d = Undef THEN Out(Ok(Undef), <<>>)
  ELSE Out(Decode(c, d).res, <<DecodeCall(c, d)>>)

\* constant: the node must equal the literal.
decodeConstant(lit, d) ==
  IF d = lit THEN Ok(d) ELSE Err("expected constant")

\* A oneOf in which the last variant that decodes the node wins.
decodeVariantsLast(variants, i, d, log) ==
  LET outs == [j \in DOMAIN variants |-> Decode(variants[j].codec, d).res]
      succeed == {j \in DOMAIN variants : IsOk(outs[j])}
      log2 == [j \in DOMAIN variants |-> DecodeCall(variants[j].codec, d)]
  IN  IF succeed = {} THEN Out(Err("no variant matched"), log2)
      ELSE Out(outs[CHOOSE j \in succeed : \A k \in succeed : k <= j], log2)

\* oneOf: the variants in listed order, from variant i on.
decodeVariants(variants, i, d, log) ==
  IF i > Len(variants) THEN Out(Err("no variant matched"), log)
  ELSE LET decoded == Decode(variants[i].codec, d).res
           log2 == Append(log, DecodeCall(variants[i].codec, d))
       IN  IF IsErr(decoded) THEN decodeVariants(variants, i + 1, d, log2)
           ELSE Out(decoded, log2)

decodeOneOf(variants, d) == decodeVariants(variants, 1, d, <<>>)

Decode(c, d) ==
  CASE c.kind = "string" -> Out(decodeString(d), <<>>)
    [] c.kind = "number" -> Out(decodeNumber(d), <<>>)
    [] c.kind = "boolean" -> Out(decodeBoolean(d), <<>>)
    [] c.kind = "sel" -> Decode(c.of, d)
    [] c.kind = "map" -> decodeMap(c.of, c.f, d)
    [] c.kind = "filter" -> decodeFilter(c.of, c.error, c.cond, d)
    [] c.kind = "array" -> decodeArray(d, c.of)
    [] c.kind = "record" -> decodeRecord(d, c.fields)
    [] c.kind = "optional" -> decodeOptional(c.of, d)
    [] c.kind = "constant" -> Out(decodeConstant(c.lit, d), <<>>)
    [] c.kind = "oneOf" -> decodeOneOf(c.variants, d)

(***************************************************************************)
(* Encoding.                                                               *)
(***************************************************************************)
RECURSIVE Encode(_, _)
RECURSIVE encodeVariants(_, _, _)

\* xs.map(x => codec.serde.encode(x))
encodeArray(xs, c) == Arr([i \in DOMAIN xs.items |-> Encode(c, xs.items[i])])

encodeRecord(x, codecs) ==
  LET keys == {codecs[i].key : i \in DOMAIN codecs}
      at(k) == CHOOSE i \in DOMAIN codecs : codecs[i].key = k
  IN  Obj([k \in keys |-> Encode(codecs[at(k)].codec, x)])

\* optional: an absent value produces no value.
encodeOptional(c, x) == IF x = Undef THEN Undef ELSE Encode(c, x)

\* oneOf: the first variant whose predicate accepts the value encodes it.
encodeVariants(variants, i, x) ==
  IF i > Len(variants) THEN Threw("Error")
  ELSE IF Test(variants[i].pred, x) THEN Encode(variants[i].codec, x)
  ELSE encodeVariants(variants, i + 1, x)

Encode(c, x) ==
  CASE c.kind \in {"string", "number", "boolean"} -> x
    [] c.kind = "sel" -> Encode(c.of, Extract(c.extract, x))
    [] c.kind \in {"map", "filter"} -> Encode(c.of, x)
    [] c.kind = "array" -> encodeArray(x, c.of)
    [] c.kind = "record" -> encodeRecord(x, c.fields)
    [] c.kind = "optional" -> encodeOptional(c.of, x)
    [] c.kind = "constant" -> c.lit
    [] c.kind = "oneOf" -> encodeVariants(c.variants, 1, x)

\* JSON.parse on the texts of the model: the node a well-formed text denotes,
\* a SyntaxError on a malformed one.
JSONParse(json) ==
  CASE json = "0" -> Num(0)
    [] json = "1" -> Num(1)
    [] json = "true" -> Bool(TRUE)
    [] json = "false" -> Bool(FALSE)
    [] json = "\"\"" -> Str("")
    [] json = "\"x\"" -> Str("x")
    [] json = "null" -> Null
    [] json = "[]" -> Arr(<<>>)
    [] json = "[1,0]" -> Arr(<<Num(1), Num(0)>>)
    [] json = "[1,\"x\",1]" -> Arr(<<Num(1), Str("x"), Num(1)>>)
    [] json = "{}" -> Obj(<<>>)
    [] json = "{\"name\":\"x\"}" -> Obj("name" :> Str("x"))
    [] json = "{\"name\":\"x\",\"age\":1}" -> Obj(("name" :> Str("x")) @@ ("age" :> Num(1)))
    [] json = "{\"name\":\"\",\"age\":0}" -> Obj(("name" :> Str("")) @@ ("age" :> Num(0)))
    [] OTHER -> Threw("SyntaxError")

\* The outcome of fromJSON: this.serde.decode(JSON.parse(json)).
fromJSON(c, json) ==
  LET parsed == JSONParse(json)
  IN  IF IsThrow(parsed) THEN Out(parsed, <<>>) ELSE Decode(c, parsed)

(***************************************************************************)
(* The inputs of the model: nodes, codecs, entities and texts.             *)
(***************************************************************************)
SeqsUpTo(S, n) == UNION {[1..k -> S] : k \in 0..n}

Nums == {Num(n) : n \in 0..MaxNum}
Strs == {Str(""), Str("x")}
Bools == {Bool(TRUE), Bool(FALSE)}
Scalars == Nums \cup Strs \cup Bools \cup {Null}

FieldNames == {"name", "age"}
FieldOrders == {<<>>, <<"name">>, <<"age">>, <<"name", "age">>, <<"age", "name">>}

\* Nodes: scalars, arrays of numbers, a string, null and an object, objects
\* over the field names, and undefined.
Items == Nums \cup {Str("x"), Null, Obj(("name" :> Str("x")) @@ ("age" :> Num(1)))}
FieldValues == Scalars \cup {Arr(<<>>), Arr(<<Num(1)>>), Obj("num" :> Num(1))}
Arrays == {Arr(items) : items \in SeqsUpTo(Items, MaxLen)}
Objects == UNION {{Obj(props) : props \in [keys -> FieldValues]} : keys \in SUBSET FieldNames}
Tagged ==
  { Obj(("type" :> Str("number")) @@ ("n" :> Num(1))),
    Obj(("type" :> Str("string")) @@ ("s" :> Str("x"))),
    Obj(("type" :> Str("number")) @@ ("s" :> Str("x"))),
    Obj("num" :> Num(1)), Obj("num" :> Str("x")) }
Nodes == Scalars \cup Arrays \cup Objects \cup Tagged \cup {Undef}

\* The codecs of the README and the tests.
IntCodec == sel(map(number, "newInt"), "num")
UserCodec ==
  mapRecord(<<Field("name", sel(string, "name")), Field("age", sel(number, "age"))>>,
            "newUser")
NameAge == <<Field("name", string), Field("age", number)>>
sumNumber == record(<<Field("type", constant(Str("number"))), Field("n", number)>>)
sumString == record(<<Field("type", constant(Str("string"))), Field("s", string)>>)

LeafCodecs == {string, number, boolean, IntCodec}
RecordSpecs ==
  UNION {{[i \in DOMAIN keys |-> Field(keys[i], cs[i])] : cs \in [DOMAIN keys -> LeafCodecs]} :
         keys \in FieldOrders}
RecordCodecs == {record(codecs) : codecs \in RecordSpecs}
NestedCodecs ==
  { array(record(NameAge)),
    record(<<Field("name", array(number)), Field("age", number)>>),
    record(<<Field("name", string), Field("age", record(<<Field("num", number)>>))>>) }

\* Codec<A>: the codecs that encode the type they decode.
SameTypeCodecs ==
  LeafCodecs \cup {array(c) : c \in LeafCodecs} \cup RecordCodecs
    \cup NestedCodecs \cup {UserCodec}

Bases == {string, number, array(number), record(NameAge), record(<<Field("name", string)>>),
          map(number, "wrap")}
MapCodecs == {map(c, f) : c \in Bases, f \in {"newInt", "wrap"}}
FilterCodecs ==
  {filter(c, error, cond) : c \in Bases, error \in {"rejected", "expected string"},
                            cond \in {"truthy", "always", "never"}}
OptionalCodecs ==
  { record(<<Field("name", string), Field("age", optional(number))>>),
    record(<<Field("age", optional(number)), Field("name", string)>>),
    record(<<Field("age", optional(number))>>) }
UnionCodecs ==
  { oneOf(<<Variant(sumNumber, "tagNumber"), Variant(sumString, "tagString")>>),
    oneOf(<<Variant(record(<<Field("name", string)>>), "always"),
            Variant(record(NameAge), "always")>>),
    oneOf(<<Variant(record(NameAge), "always"),
            Variant(record(<<Field("name", string)>>), "always")>>),
    oneOf(<<Variant(map(number, "newInt"), "always"), Variant(map(number, "wrap"), "always"),
            Variant(string, "always")>>),
    oneOf(<<Variant(string, "always"), Variant(array(number), "always")>>),
    oneOf(<<>>) }

Codecs == SameTypeCodecs \cup MapCodecs \cup FilterCodecs \cup OptionalCodecs \cup UnionCodecs

\* The values a codec encodes (its type X), within the bounds.
RECURSIVE EncDomain(_)
RECURSIVE RecordDomain(_, _)

\* The objects the fields i.. of a record read their values from; a field
\* whose value is absent (undefined) has no key.
RecordDomain(codecs, i) ==
  IF i > Len(codecs) THEN {<<>>}
  ELSE {IF v = Undef THEN props ELSE SetProp(props, codecs[i].key, v) :
          props \in RecordDomain(codecs, i + 1), v \in EncDomain(codecs[i].codec.of)}

EncDomain(c) ==
  CASE c.kind = "string" -> Strs
    [] c.kind = "number" -> Nums
    [] c.kind = "boolean" -> Bools
    [] c.kind = "sel" -> {Obj(c.extract :> v) : v \in EncDomain(c.of)}
    [] c.kind \in {"map", "filter"} -> EncDomain(c.of)
    [] c.kind = "array" -> {Arr(items) : items \in SeqsUpTo(EncDomain(c.of), MaxLen)}
    [] c.kind = "record" -> {Obj(props) : props \in RecordDomain(c.fields, 1)}
    [] c.kind = "optional" -> EncDomain(c.of) \cup {Undef}
    [] c.kind = "constant" -> {c.lit}
    [] c.kind = "oneOf" ->
         UNION {{x \in EncDomain(c.variants[i].codec) : Test(c.variants[i].pred, x)} :
                i \in DOMAIN c.variants}

Texts ==
  { "0", "1", "true", "false", "\"\"", "\"x\"", "null", "[]", "[1,0]", "[1,\"x\",1]", "{}",
    "{\"name\":\"x\"}", "{\"name\":\"x\",\"age\":1}", "{\"name\":\"\",\"age\":0}",
    "", "{", "[1,", "nul", "'x'", "{name: 1}" }

(***************************************************************************)
(* The operations of a Codec.                                              *)
(***************************************************************************)
Init ==
  /\ op = "init"
  /\ codec = None
  /\ entity = None
  /\ encoded = None
  /\ text = None
  /\ data = None
  /\ result = None
  /\ calls = <<>>

\* codec.toObject(entity)
ToObject ==
  /\ op = "init"
  /\ \E c \in Codecs : \E x \in EncDomain(c) :
       /\ op' = "toObject"
       /\ codec' = c
       /\ entity' = x
       /\ encoded' = Encode(c, x)
       /\ text' = None
       /\ data' = None
       /\ result' = None
       /\ calls' = <<>>

\* codec.fromObject(data)
FromObject ==
  /\ op = "init"
  /\ \E c \in Codecs : \E d \in Nodes :
       LET out == Decode(c, d)
       IN  /\ op' = "fromObject"
           /\ codec' = c
           /\ entity' = None
           /\ encoded' = None
           /\ text' = None
           /\ data' = d
           /\ result' = out.res
           /\ calls' = out.log

\* codec.fromObject(codec.toObject(entity)): the decode of what toObject
\* has just returned.
RoundTrip ==
  /\ op = "toObject"
  /\ LET out == Decode(codec, encoded)
     IN  /\ op' = "roundTrip"
         /\ data' = encoded
         /\ result' = out.res
         /\ calls' = out.log
  /\ UNCHANGED <<codec, entity, encoded, text>>

\* codec.fromJSON(text)
FromJSON ==
  /\ op = "init"
  /\ \E c \in Codecs : \E json \in Texts :
       LET parsed == JSONParse(json)
           out == fromJSON(c, json)
       IN  /\ op' = "fromJSON"
           /\ codec' = c
           /\ entity' = None
           /\ encoded' = None
           /\ text' = json
           /\ data' = IF IsThrow(parsed) THEN None ELSE parsed
           /\ result' = out.res
           /\ calls' = out.log

\* The call has returned (or faulted); the program makes its next call.  A
\* codec holds no state, so nothing of the last call remains.
Return ==
  /\ op # "init"
  /\ op' = "init"
  /\ codec' = None
  /\ entity' = None
  /\ encoded' = None
  /\ text' = None
  /\ data' = None
  /\ result' = None
  /\ calls' = <<>>

Next == ToObject \/ FromObject \/ RoundTrip \/ FromJSON \/ Return

Spec == Init /\ [][Next]_vars

(***************************************************************************)
(* Properties.                                                             *)
(***************************************************************************)
Min(S) == CHOOSE i \in S : \A k \in S : i <= k

\* The outcome of record field i's codec on the entry the mapping d holds
\* under the field's key.
FieldOutcome(c, d, i) == Decode(c.fields[i].codec, d.props[c.fields[i].key]).res

\* Field i is absent from the mapping d, or its entry is invalid.
FieldFails(c, d, i) ==
  \/ ~HasKey(d, c.fields[i].key)
  \/ ~IsOk(FieldOutcome(c, d, i))

\* The position of key among the fields of the record codec c.
FieldIndex(c, key) == CHOOSE i \in DOMAIN c.fields : c.fields[i].key = key

\* C1: Round-trip law: for every codec of one type built from the
\* primitives, array, record, mapRecord, sel and map, and every value v it
\* encodes, fromObject(toObject(v)) is the success whose value equals v,
\* records and arrays with fields or items 0, false or '' included.
C1_RoundTrip ==
  (op = "roundTrip" /\ codec \in SameTypeCodecs) => result = Ok(entity)

\* C2: fromJSON on a malformed text returns a failure Result; the fault of
\* the parse does not leave the call.
C2_MalformedTextIsFailure ==
  (op = "fromJSON" /\ IsThrow(JSONParse(text))) => IsErr(result)

\* C3: Record decode on a node that is not a mapping (a string, a number, a
\* boolean, an array or null) returns the failure 'expected object', whatever
\* fields the record declares.
C3_NonMappingIsExpectedObject ==
  (/\ op = "fromObject"
   /\ codec.kind = "record"
   /\ data.t \in {"string", "number", "boolean", "array", "null"})
    => result = Err("expected object")

\* C4: Record decode validates the fields in declaration order and stops at
\* the first failing one: on a mapping, the result is the failure of the
\* earliest declared field that is absent or invalid ('missing field <name>'
\* when its key is absent, else the field codec's own failure), and no later
\* field's codec is invoked.
C4_FirstFailingFieldDecides ==
  (/\ op = "fromObject"
   /\ codec.kind = "record"
   /\ data.t = "object"
   /\ \E i \in DOMAIN codec.fields : FieldFails(codec, data, i))
    => LET first == Min({i \in DOMAIN codec.fields : FieldFails(codec, data, i)})
           key == codec.fields[first].key
       IN  /\ result = IF ~HasKey(data, key) THEN Err("missing field " \o key)
                       ELSE FieldOutcome(codec, data, first)
           /\ \A j \in DOMAIN calls : FieldIndex(codec, calls[j].key) <= first

\* C5: A record with a field declared optional decodes a mapping that lacks
\* the field's key (and is valid otherwise) to a success whose value has no
\* such key, not to 'missing field <name>'.
C5_OptionalFieldMayBeAbsent ==
  (/\ op = "fromObject"
   /\ codec.kind = "record"
   /\ data.t = "object"
   /\ \E i \in DOMAIN codec.fields :
        codec.fields[i].codec.of.kind = "optional" /\ ~HasKey(data, codec.fields[i].key)
   /\ \A i \in DOMAIN codec.fields :
        \/ codec.fields[i].codec.of.kind = "optional" /\ ~HasKey(data, codec.fields[i].key)
        \/ /\ HasKey(data, codec.fields[i].key)
           /\ ~Falsy(data.props[codec.fields[i].key])
           /\ IsOk(FieldOutcome(codec, data, i)))
    => /\ IsOk(result)
       /\ \A i \in DOMAIN codec.fields :
            ~HasKey(data, codec.fields[i].key) => ~HasKey(result.value, codec.fields[i].key)

\* C6: Each primitive codec (string, number, boolean) decodes a node
\* successfully iff the node's runtime kind is the codec's kind, and then
\* returns the node unchanged; on a node of any other kind it returns the
\* failure whose message names the expected kind, never a coerced value.
C6_PrimitiveDecode ==
  (op = "fromObject" /\ codec \in {string, number, boolean})
    => IF data.t = codec.kind THEN result = Ok(data)
       ELSE result = Err(CASE codec.kind = "string" -> "expected string"
                           [] codec.kind = "number" -> "expected number "
                           [] codec.kind = "boolean" -> "expected boolean")

\* C6 witness: the number codec has rejected true.
C6_Witness ==
  /\ op = "fromObject"
  /\ codec = number
  /\ data = Bool(TRUE)
  /\ result = Err("expected number ")

\* C7: Array decode is fail-fast and order-preserving: on an array node the
\* items are decoded left to right; if item i is the first whose decode does
\* not succeed, the result is exactly that item's outcome and the element
\* codec is not invoked on the items after i; if every item succeeds, the
\* result is the success listing the decoded items in input order.
C7_ArrayFailFast ==
  (op = "fromObject" /\ codec.kind = "array" /\ data.t = "array")
    => LET items == data.items
           outs == [i \in DOMAIN items |-> Decode(codec.of, items[i]).res]
           failing == {i \in DOMAIN items : ~IsOk(outs[i])}
           last == IF failing = {} THEN Len(items) ELSE Min(failing)
       IN  /\ Len(calls) = last
           /\ \A j \in 1..last : calls[j] = DecodeCall(codec.of, items[j])
           /\ result = IF failing = {} THEN Ok(Arr([i \in DOMAIN items |-> outs[i].value]))
                       ELSE outs[last]

\* C7 witness: [1, "x", 1] against array(number) has failed on the second
\* item, and the third was not decoded.
C7_Witness ==
  /\ op = "fromObject"
  /\ codec = array(number)
  /\ data = Arr(<<Num(1), Str("x"), Num(1)>>)
  /\ result = Err("expected number ")
  /\ Len(calls) = 2

\* C8: Union (oneOf) decode is first-match-wins: the variants are tried in
\* listed order and the result is the success of the first listed variant
\* whose decode succeeds (no earlier one having faulted), also when a later
\* variant would succeed too; a failure is returned only when every variant
\* fails.
C8_FirstMatchWins ==
  (op = "fromObject" /\ codec.kind = "oneOf")
    => LET variants == codec.variants
           outs == [i \in DOMAIN variants |-> Decode(variants[i].codec, data).res]
           succeed == {i \in DOMAIN variants : IsOk(outs[i])}
       IN  /\ (succeed # {} /\ \A k \in 1..(Min(succeed) - 1) : IsErr(outs[k]))
                => /\ result = outs[Min(succeed)]
                   /\ Len(calls) = Min(succeed)
           /\ IsErr(result) => \A i \in DOMAIN variants : IsErr(outs[i])

\* C8 witness: a node both variants decode, to different values, has been
\* decoded to the first variant's value.
C8_Witness ==
  /\ op = "fromObject"
  /\ codec = oneOf(<<Variant(record(<<Field("name", string)>>), "always"),
                     Variant(record(NameAge), "always")>>)
  /\ data = Obj(("name" :> Str("x")) @@ ("age" :> Num(1)))
  /\ result = Ok(Obj("name" :> Str("x")))
  /\ IsOk(Decode(record(NameAge), data).res)
  /\ Decode(record(NameAge), data).res # result

\* C9: For c.map(f) and a node d: when c's decode of d fails, c.map(f)
\* decodes d to the same failure and f is not invoked; when it succeeds with
\* a, c.map(f) decodes d to the success with f(a); c.map(f) encodes as c does.
C9_MapDecode ==
  /\ (op = "fromObject" /\ codec.kind = "map")
       => LET inner == Decode(codec.of, data).res
          IN  /\ IsErr(inner)
                   => /\ result = inner
                      /\ \A j \in DOMAIN calls : calls[j].call # "fn"
              /\ IsOk(inner)
                   => /\ result = Ok(Apply(codec.f, inner.value))
                      /\ calls = <<DecodeCall(codec.of, data), FnCall(codec.f, inner.value)>>
  /\ (op = "toObject" /\ codec.kind = "map") => encoded = Encode(codec.of, entity)

\* C9 witness: number.map(newInt) has passed on number's failure without
\* calling newInt.
C9_Witness ==
  /\ op = "fromObject"
  /\ codec = map(number, "newInt")
  /\ data = Str("x")
  /\ result = Err("expected number ")
  /\ calls = <<DecodeCall(number, Str("x"))>>

\* C10: For c.filter(m, p) and a node d: when c's decode of d fails, the
\* result is c's failure unchanged and p is not invoked; when it succeeds
\* with a value p rejects, the result is the failure with message m; when p
\* accepts the value, the result is c's success unchanged.
C10_FilterDecode ==
  (op = "fromObject" /\ codec.kind = "filter")
    => LET inner == Decode(codec.of, data).res
       IN  /\ ~IsOk(inner)
                => /\ result = inner
                   /\ \A j \in DOMAIN calls : calls[j].call # "fn"
           /\ (IsOk(inner) /\ ~Test(codec.cond, inner.value)) => result = Err(codec.error)
           /\ (IsOk(inner) /\ Test(codec.cond, inner.value)) => result = inner

\* C10 witness: number.filter('rejected', truthy) has decoded 0, which number
\* accepts and the predicate rejects.
C10_Witness ==
  /\ op = "fromObject"
  /\ codec = filter(number, "rejected", "truthy")
  /\ data = Num(0)
  /\ result = Err("rejected")

\* The mapping d without the entry under key.
Without(d, key) == Obj([k \in DOMAIN d.props \ {key} |-> d.props[k]])

\* The falsy values a mapping can hold under a key: 0, false and ''.
FalsyEntries == {Num(0), Bool(FALSE), Str("")}

\* C11: Record decode treats a declared field whose key is present in the
\* mapping with a falsy value (0, false or '') exactly like an absent key:
\* the decode ends as it does on the mapping without that key, the field's
\* codec is not invoked, and, the earlier declared fields having decoded,
\* the result is the failure 'missing field <name>'.
C11_FalsyEntryIsMissing ==
  (op = "fromObject" /\ codec.kind = "record" /\ data.t = "object")
    => \A i \in DOMAIN codec.fields :
         LET key == codec.fields[i].key
         IN  (HasKey(data, key) /\ data.props[key] \in FalsyEntries)
               => /\ Decode(codec, Without(data, key)) = Out(result, calls)
                  /\ \A j \in DOMAIN calls : calls[j].key # key
                  /\ (\A k \in 1..(i - 1) :
                        /\ HasKey(data, codec.fields[k].key)
                        /\ data.props[codec.fields[k].key] \notin FalsyEntries \cup {Null}
                        /\ IsOk(FieldOutcome(codec, data, k)))
                       => result = Err("missing field " \o key)

\* C11 witness: {name: 'x', age: 0} against record({name: string, age:
\* number}) has failed with 'missing field age' after decoding name only.
C11_Witness ==
  /\ op = "fromObject"
  /\ codec = record(NameAge)
  /\ data = Obj(("name" :> Str("x")) @@ ("age" :> Num(0)))
  /\ result = Err("missing field age")
  /\ calls = <<FieldCall("name", sel(string, "name"), Str("x"))>>

====
